---------------------------- MODULE Spec2Model ----------------------------
(* Habit tracker (src/app.py): the records / habits tables, the write    *)
(* path create_record, the soft delete, and the statistics functions     *)
(* calculate_streak, get_completion_rate, get_best_weekday and           *)
(* get_overview_stats.                                                   *)
(*                                                                       *)
(* Conventions.                                                          *)
(*  - A calendar date is an integer day number; the ISO string the       *)
(*    table stores ('%Y-%m-%d') orders and parses as that number.        *)
(*  - The records table is a bag of rows: the rowid and created_at       *)
(*    columns are left out, so two rows of the same content are two      *)
(*    copies of one element.                                             *)
(*  - PRAGMA foreign_keys is never switched on, so the FOREIGN KEY       *)
(*    clauses of the schema reject nothing.                              *)
(*  - A percentage rounded to one decimal is an integer number of        *)
(*    tenths (30.0 is 300).                                              *)
EXTENDS Integers, Sequences, FiniteSets, Bags, TLC

\* ------------------------------------------------------------ bounds
MaxHabits == 2     \* habit ids 1..MaxHabits
MaxDate == 4       \* the clock of the streak runs stops at this day
MaxDay == 1        \* the clock of the other runs stops at this day
MaxRecords == 4    \* rows the records table may hold
MaxDays == 2       \* longest window asked of get_completion_rate
MaxWriters == 2    \* connections writing at once

\* ------------------------------------------------------------ values
\* None in Python, NULL in SQL
NULL == -1
\* a key the request body does not carry
Absent == NULL - 1

HabitIds == 1..MaxHabits
Flags == {0, 1}
\* no note, or some text
Notes == {NULL, 1}

VARIABLES
  habits,     \* habits table: habits[i] is the active column of the row with id i
  records,    \* records table: bag of [habit_id, date, completed, notes]
  today,      \* datetime.now().date()
  w,          \* create_record calls in flight, one per connection
  ov,         \* the get_overview_stats call: its position and locals
  last,       \* the last request served from start to end
  resp        \* what it returned

vars == <<habits, records, today, w, ov, last, resp>>

Max(a, b) == IF a >= b THEN a ELSE b

\* ------------------------------------------------------------ SQL helpers
\* SQL equality: a comparison with NULL is never true.
SqlEq(a, b) == a # NULL /\ b # NULL /\ a = b

Row(h, d, c, n) == [habit_id |-> h, date |-> d, completed |-> c, notes |-> n]

Rows(recs) == BagToSet(recs)

RECURSIVE CopiesOfAll(_, _)
CopiesOfAll(recs, S) ==
  IF S = {} THEN 0
  ELSE LET r == CHOOSE x \in S : TRUE
       IN CopiesIn(r, recs) + CopiesOfAll(recs, S \ {r})

\* UNIQUE(habit_id, date): is there a row the new one collides with
UniqueViolationUnchecked(recs, h, d) == FALSE
UniqueViolation(recs, h, d) ==
  \E r \in Rows(recs) : SqlEq(r.habit_id, h) /\ SqlEq(r.date, d)

\* habit_id INTEGER NOT NULL, date DATE NOT NULL
NotNullViolation(h, d) == h = NULL \/ d = NULL

\* INSERT INTO records (habit_id, date, completed, notes) VALUES (?, ?, ?, ?)
\* error is "IntegrityError" when a constraint rejects the row.
InsertRecord(recs, req) ==
  IF NotNullViolation(req.habit_id, req.date)
     \/ UniqueViolation(recs, req.habit_id, req.date)
  THEN [error |-> "IntegrityError", recs |-> recs]
  ELSE [error |-> "none",
        recs |-> recs (+) SetToBag({Row(req.habit_id, req.date,
                                        req.completed, req.notes)})]

\* UPDATE records SET completed = ?, notes = ? WHERE habit_id = ? AND date = ?
UpdateMatches(recs, req) ==
  {r \in Rows(recs) : SqlEq(r.habit_id, req.habit_id) /\ SqlEq(r.date, req.date)}

UpdateRecordToggle(recs, req) ==
  LET hit == UpdateMatches(recs, req)
      upd(r) == IF r \in hit
                THEN [r EXCEPT !.completed = 1 - r.completed, !.notes = req.notes]
                ELSE r
      dom == {upd(r) : r \in Rows(recs)}
  IN [recs |-> [x \in dom |-> CopiesOfAll(recs, {r \in Rows(recs) : upd(r) = x})],
      rowcount |-> CopiesOfAll(recs, hit)]
UpdateRecord(recs, req) ==
  LET hit == UpdateMatches(recs, req)
      upd(r) == IF r \in hit
                THEN [r EXCEPT !.completed = req.completed, !.notes = req.notes]
                ELSE r
      dom == {upd(r) : r \in Rows(recs)}
  IN [recs |-> [x \in dom |-> CopiesOfAll(recs, {r \in Rows(recs) : upd(r) = x})],
      rowcount |-> CopiesOfAll(recs, hit)]


\* ------------------------------------------------------------ calculate_streak
\* SELECT date, completed FROM records WHERE habit_id = ? AND completed = 1
CompletedRowsAnyFlag(recs, habit_id) ==
  {r \in Rows(recs) : SqlEq(r.habit_id, habit_id)}
CompletedRows(recs, habit_id) ==
  {r \in Rows(recs) : SqlEq(r.habit_id, habit_id) /\ r.completed = 1}

\* ... ORDER BY date DESC: one entry per row, latest date first
RECURSIVE OrderByDateDesc(_, _)
OrderByDateDesc(recs, S) ==
  IF S = {} THEN <<>>
  ELSE LET top == CHOOSE d \in {r.date : r \in S} :
                    \A e \in {r.date : r \in S} : e <= d
           same == {r \in S : r.date = top}
           n == CopiesOfAll(recs, same)
       IN [i \in 1..n |-> top] \o OrderByDateDesc(recs, S \ same)

FetchCompleted(recs, habit_id) ==
  OrderByDateDesc(recs, CompletedRows(recs, habit_id))

\* first loop: expected_date = today - timedelta(days=current_streak)
RECURSIVE CurrentLoop(_, _, _, _)
CurrentLoop(rows, i, current_streak, now) ==
  IF i > Len(rows) THEN current_streak
  ELSE IF rows[i] = now - current_streak
       THEN CurrentLoop(rows, i + 1, current_streak + 1, now)
       ELSE current_streak

\* second loop: temp_streak, best_streak, prev_date (None when i = 1)
RECURSIVE BestLoopNoRestart(_, _, _, _)
BestLoopNoRestart(rows, i, temp_streak, best_streak) ==
  IF i > Len(rows) THEN best_streak
  ELSE IF i = 1 \/ rows[i - 1] - rows[i] = 1
       THEN BestLoopNoRestart(rows, i + 1, temp_streak + 1,
                              Max(best_streak, temp_streak + 1))
       ELSE BestLoopNoRestart(rows, i + 1, 0, best_streak)
RECURSIVE BestLoop(_, _, _, _)
BestLoop(rows, i, temp_streak, best_streak) ==
  IF i > Len(rows) THEN best_streak
  ELSE IF i = 1 \/ rows[i - 1] - rows[i] = 1
       THEN BestLoop(rows, i + 1, temp_streak + 1,
                     Max(best_streak, temp_streak + 1))
       ELSE BestLoop(rows, i + 1, 1, best_streak)

calculate_streak(recs, habit_id, now) ==
  LET rows == FetchCompleted(recs, habit_id)
  IN IF rows = <<>> THEN [current |-> 0, best |-> 0]
     ELSE LET current_streak == CurrentLoop(rows, 1, 0, now)
              best_streak == BestLoop(rows, 1, 0, 0)
          IN [current |-> current_streak,
              best |-> Max(best_streak, current_streak)]

\* ------------------------------------------------------------ get_completion_rate
\* SELECT COUNT(*) FROM records WHERE habit_id = ? AND date >= ? AND completed = 1
CountCompletedSince(recs, habit_id, start_date) ==
  CopiesOfAll(recs, {r \in CompletedRows(recs, habit_id) : r.date >= start_date})

\* round(x, 1) of the quotient num / den, in tenths; a quotient that lies
\* exactly between two tenths goes to the even one, as Python rounds a
\* float that holds such a value exactly
Round1(num, den) ==
  LET q == (num * 10) \div den
      rem == (num * 10) % den
  IN IF 2 * rem > den \/ (2 * rem = den /\ q % 2 = 1) THEN q + 1 ELSE q

\* round((completed / days) * 100, 1); the division raises when days = 0
get_completion_rate(recs, habit_id, days, now) ==
  LET start_date == now - days
      completed == CountCompletedSince(recs, habit_id, start_date)
  IN IF days = 0
     THEN [error |-> "ZeroDivisionError", completed |-> completed, rate |-> 0]
     ELSE [error |-> "none", completed |-> completed,
           rate |-> Round1(completed * 100, days)]

\* ------------------------------------------------------------ get_best_weekday
weekdays == <<"Domingo", "Segunda", "Terca", "Quarta", "Quinta", "Sexta", "Sabado">>

\* CAST(strftime('%w', date) AS INTEGER): day 0 of the model is a Sunday
Weekday(d) == d % 7

\* GROUP BY weekday: COUNT(*) of one group
WeekdayCount(recs, habit_id, wd) ==
  CopiesOfAll(recs, {r \in CompletedRows(recs, habit_id) : Weekday(r.date) = wd})

\* ORDER BY count DESC LIMIT 1: the order among equal counts is the engine's,
\* so every group of the highest count is a possible first row
BestWeekdayRows(recs, habit_id) ==
  {wd \in 0..6 :
     /\ WeekdayCount(recs, habit_id, wd) > 0
     /\ \A o \in 0..6 : WeekdayCount(recs, habit_id, o) <= WeekdayCount(recs, habit_id, wd)}

\* the values get_best_weekday can return; "None" when the query has no row
get_best_weekday(recs, habit_id) ==
  IF BestWeekdayRows(recs, habit_id) = {} THEN {"None"}
  ELSE {weekdays[wd + 1] : wd \in BestWeekdayRows(recs, habit_id)}


\* ------------------------------------------------------------ state
Writers == 1..MaxWriters

Request(h, d, c, n) == [habit_id |-> h, date |-> d, completed |-> c, notes |-> n]
NoRequest == Request(NULL, NULL, NULL, NULL)

Call(op, req, days) == [op |-> op, req |-> req, days |-> days]
NoCall == Call("none", NoRequest, 0)

NoResponse ==
  [status |-> 0, rowcount |-> 0, now |-> 0, current |-> 0, best |-> 0,
   error |-> "none", completed |-> 0, rate |-> 0, weekday |-> "None"]

WriterIdle == [pc |-> "idle", req |-> NoRequest, status |-> 0, rowcount |-> 0]

OvIdle ==
  [pc |-> "idle", total_habits |-> 0, completed_today |-> 0, habit_ids |-> <<>>,
   i |-> 1, total_streak |-> 0, avg_streak |-> 0, total_completions |-> 0,
   error |-> "none", completion_rate_today |-> 0]

Init ==
  /\ habits = <<>>
  /\ records = EmptyBag
  /\ today = 0
  /\ w = [p \in Writers |-> WriterIdle]
  /\ ov = OvIdle
  /\ last = NoCall
  /\ resp = NoResponse

\* datetime.now().date() moves on
Tick(limit) ==
  /\ today < limit
  /\ today' = today + 1
  /\ UNCHANGED <<habits, records, w, ov, last, resp>>

\* the caller takes the response; the next request can be served
Respond ==
  /\ last.op # "none"
  /\ last' = NoCall
  /\ resp' = NoResponse
  /\ UNCHANGED <<habits, records, today, w, ov>>

\* ------------------------------------------------------------ create_record
\* date = data.get('date', today); completed = data.get('completed', 1)
WithDefaults(h, d, c, n, now) ==
  Request(h, IF d = Absent THEN now ELSE d, IF c = Absent THEN 1 ELSE c, n)

\* the handler, run from start to end on one connection
create_record(recs, req) ==
  LET ins == InsertRecord(recs, req)
  IN IF ins.error = "none"
     THEN [recs |-> ins.recs, status |-> 201, rowcount |-> 1]
     ELSE LET upd == UpdateRecord(recs, req)
          IN [recs |-> upd.recs, status |-> 200, rowcount |-> upd.rowcount]

CreateRecord(req) ==
  /\ last.op = "none"
  /\ LET r == create_record(records, req)
     IN /\ r.status = 201 => BagCardinality(records) < MaxRecords
        /\ records' = r.recs
        /\ resp' = [NoResponse EXCEPT !.status = r.status, !.rowcount = r.rowcount]
  /\ last' = Call("create_record", req, 0)
  /\ UNCHANGED <<habits, today, w, ov>>

\* the same handler on connection p, other connections committing in between:
\* the try block (INSERT, commit, 201) ...
\* (SQLite lets one connection write at a time; every order in which the
\* statements of the connections can commit is allowed here, and a wait for
\* the write lock is not a step.)
CreateRecordInsert(p, req) ==
  /\ w[p].pc = "idle"
  /\ LET ins == InsertRecord(records, req)
     IN IF ins.error = "none"
        THEN /\ BagCardinality(records) < MaxRecords
             /\ records' = ins.recs
             /\ w' = [w EXCEPT ![p] = [pc |-> "done", req |-> req,
                                       status |-> 201, rowcount |-> 1]]
        ELSE /\ records' = records
             /\ w' = [w EXCEPT ![p] = [pc |-> "except", req |-> req,
                                       status |-> 0, rowcount |-> 0]]
  /\ UNCHANGED <<habits, today, ov, last, resp>>

\* ... and the except block (UPDATE, commit, 200)
CreateRecordExcept(p) ==
  /\ w[p].pc = "except"
  /\ LET upd == UpdateRecord(records, w[p].req)
     IN /\ records' = upd.recs
        /\ w' = [w EXCEPT ![p] = [pc |-> "done", req |-> w[p].req,
                                  status |-> 200, rowcount |-> upd.rowcount]]
  /\ UNCHANGED <<habits, today, ov, last, resp>>

\* return jsonify(...)
CreateRecordReturn(p) ==
  /\ w[p].pc = "done"
  /\ w' = [w EXCEPT ![p] = WriterIdle]
  /\ UNCHANGED <<habits, records, today, ov, last, resp>>

\* ------------------------------------------------------------ statistics calls
CalculateStreak(habit_id) ==
  /\ last.op = "none"
  /\ LET s == calculate_streak(records, habit_id, today)
     IN resp' = [NoResponse EXCEPT !.now = today, !.current = s.current,
                                   !.best = s.best]
  /\ last' = Call("calculate_streak", Request(habit_id, NULL, NULL, NULL), 0)
  /\ UNCHANGED <<habits, records, today, w, ov>>

GetCompletionRate(habit_id, days) ==
  /\ last.op = "none"
  /\ LET r == get_completion_rate(records, habit_id, days, today)
     IN resp' = [NoResponse EXCEPT !.now = today, !.error = r.error,
                                   !.completed = r.completed, !.rate = r.rate]
  /\ last' = Call("get_completion_rate", Request(habit_id, NULL, NULL, NULL), days)
  /\ UNCHANGED <<habits, records, today, w, ov>>

GetBestWeekday(habit_id) ==
  /\ last.op = "none"
  /\ \E wd \in get_best_weekday(records, habit_id) :
       resp' = [NoResponse EXCEPT !.now = today, !.weekday = wd]
  /\ last' = Call("get_best_weekday", Request(habit_id, NULL, NULL, NULL), 0)
  /\ UNCHANGED <<habits, records, today, w, ov>>

\* ------------------------------------------------------------ habits
\* INSERT INTO habits (...): the next id, active DEFAULT 1
CreateHabit ==
  /\ last.op = "none"
  /\ Len(habits) < MaxHabits
  /\ habits' = Append(habits, 1)
  /\ last' = Call("create_habit", NoRequest, 0)
  /\ resp' = [NoResponse EXCEPT !.status = 201]
  /\ UNCHANGED <<records, today, w, ov>>

\* UPDATE habits SET active = 0 WHERE id = ?
delete_habit(hab, habit_id) ==
  [i \in DOMAIN hab |-> IF i = habit_id THEN 0 ELSE hab[i]]

DeleteHabit(habit_id) ==
  /\ last.op = "none"
  /\ habits' = delete_habit(habits, habit_id)
  /\ last' = Call("delete_habit", Request(habit_id, NULL, NULL, NULL), 0)
  /\ resp' = [NoResponse EXCEPT !.status = 200]
  /\ UNCHANGED <<records, today, w, ov>>

\* ------------------------------------------------------------ get_overview_stats
\* SELECT COUNT(*) FROM habits WHERE active = 1
CountActive(hab) == Cardinality({i \in DOMAIN hab : hab[i] = 1})

\* SELECT COUNT(DISTINCT habit_id) FROM records WHERE date = ? AND completed = 1
CountCompletedToday(recs, now) ==
  Cardinality({r.habit_id : r \in {x \in Rows(recs) :
                                     SqlEq(x.date, now) /\ x.completed = 1}})

\* SELECT id FROM habits WHERE active = 1
RECURSIVE ActiveIdsFrom(_, _)
ActiveIdsFrom(hab, i) ==
  IF i > Len(hab) THEN <<>>
  ELSE (IF hab[i] = 1 THEN <<i>> ELSE <<>>) \o ActiveIdsFrom(hab, i + 1)

ActiveIds(hab) == ActiveIdsFrom(hab, 1)

\* SELECT COUNT(*) FROM records WHERE completed = 1
CountCompletions(recs) == CopiesOfAll(recs, {r \in Rows(recs) : r.completed = 1})

\* round(total_streak / len(habit_ids), 1) if habit_ids else 0
AverageStreak(total_streak, n) ==
  IF n # 0 THEN [error |-> "none", value |-> Round1(total_streak, n)]
  ELSE [error |-> "none", value |-> 0]

\* round((completed_today / total_habits * 100), 1) if total_habits > 0 else 0
CompletionRateTodayUnguarded(completed_today, total_habits) ==
  IF total_habits = 0 THEN [error |-> "ZeroDivisionError", value |-> 0]
  ELSE [error |-> "none", value |-> Round1(completed_today * 100, total_habits)]
CompletionRateToday(completed_today, total_habits) ==
  IF total_habits > 0
  THEN [error |-> "none", value |-> Round1(completed_today * 100, total_habits)]
  ELSE [error |-> "none", value |-> 0]

\* one step of the handler: from one query to the next
OvStep(o, hab, recs, now) ==
  CASE o.pc = "idle" ->
         [o EXCEPT !.pc = "today", !.total_habits = CountActive(hab)]
    [] o.pc = "today" ->
         [o EXCEPT !.pc = "ids", !.completed_today = CountCompletedToday(recs, now)]
    [] o.pc = "ids" ->
         [o EXCEPT !.pc = "streak", !.habit_ids = ActiveIds(hab), !.i = 1]
    [] o.pc = "streak" /\ o.i <= Len(o.habit_ids) ->
         [o EXCEPT !.i = o.i + 1,
                   !.total_streak =
                      o.total_streak + calculate_streak(recs, o.habit_ids[o.i], now).current]
    [] o.pc = "streak" /\ o.i > Len(o.habit_ids) ->
         LET avg == AverageStreak(o.total_streak, Len(o.habit_ids))
         IN IF avg.error # "none"
            THEN [o EXCEPT !.pc = "done", !.error = avg.error]
            ELSE [o EXCEPT !.pc = "return", !.avg_streak = avg.value,
                           !.total_completions = CountCompletions(recs)]
    [] o.pc = "return" ->
         LET rate == CompletionRateToday(o.completed_today, o.total_habits)
         IN [o EXCEPT !.pc = "done", !.error = rate.error,
                      !.completion_rate_today = rate.value]
    [] OTHER -> o

RECURSIVE OvRun(_, _, _, _)
OvRun(o, hab, recs, now) ==
  IF o.pc = "done" THEN o ELSE OvRun(OvStep(o, hab, recs, now), hab, recs, now)

\* the handler run from start to end
GetOverviewStats ==
  /\ ov.pc = "idle"
  /\ ov' = OvRun(ov, habits, records, today)
  /\ UNCHANGED <<habits, records, today, w, last, resp>>

\* the handler with other requests committing between its queries
OverviewStep ==
  /\ ov.pc \notin {"done"}
  /\ ov' = OvStep(ov, habits, records, today)
  /\ UNCHANGED <<habits, records, today, w, last, resp>>

\* return jsonify(...)
OverviewReturn ==
  /\ ov.pc = "done"
  /\ ov' = OvIdle
  /\ UNCHANGED <<habits, records, today, w, last, resp>>

\* ------------------------------------------------------------ specifications
\* Streaks: callers mark days of any date as done and ask for the streak.
NextStreak ==
  \/ Tick(MaxDate)
  \/ Respond
  \/ \E h \in HabitIds, d \in 0..MaxDate :
       CreateRecord(WithDefaults(h, d, Absent, NULL, today))
  \/ \E h \in HabitIds : CalculateStreak(h)

SpecStreak == Init /\ [][NextStreak]_vars

\* Statistics: callers mark and re-mark days, done or not done, and ask for
\* each statistic.
NextStats ==
  \/ Tick(MaxDay)
  \/ Respond
  \/ \E h \in HabitIds, d \in 0..MaxDay, c \in Flags :
       CreateRecord(WithDefaults(h, d, c, NULL, today))
  \/ \E h \in HabitIds : CalculateStreak(h)
  \/ \E h \in HabitIds, days \in 0..MaxDays : GetCompletionRate(h, days)
  \/ \E h \in HabitIds : GetBestWeekday(h)

SpecStats == Init /\ [][NextStats]_vars

\* Upserts: one caller at a time posts bodies with or without a date, a flag,
\* a note, and with null ids and dates.
UpsertRequests ==
  {WithDefaults(h, d, c, n, today) :
     h \in HabitIds \cup {NULL}, d \in {Absent, NULL},
     c \in Flags \cup {Absent}, n \in Notes}

NextUpsert ==
  \/ Respond
  \/ \E req \in UpsertRequests : CreateRecord(req)

SpecUpsert == Init /\ [][NextUpsert]_vars

\* Concurrent writers: each connection marks today for some habit.
NextConc ==
  \/ \E p \in Writers, h \in HabitIds, c \in Flags :
       CreateRecordInsert(p, WithDefaults(h, Absent, c, NULL, today))
  \/ \E p \in Writers : CreateRecordExcept(p)
  \/ \E p \in Writers : CreateRecordReturn(p)

SpecConc == Init /\ [][NextConc]_vars

\* Overview, one request at a time: habits are created, marked today and
\* soft-deleted; an id may be marked before any habit carries it.
NextOverviewSeq ==
  \/ Tick(MaxDay)
  \/ Respond
  \/ CreateHabit
  \/ \E h \in HabitIds : DeleteHabit(h)
  \/ \E h \in HabitIds, c \in Flags :
       CreateRecord(WithDefaults(h, Absent, c, NULL, today))
  \/ GetOverviewStats
  \/ OverviewReturn

SpecOverviewSeq == Init /\ [][NextOverviewSeq]_vars

\* Overview, with requests served between its queries: habits are created,
\* marked done today and soft-deleted.
NextOverview ==
  \/ Respond
  \/ CreateHabit
  \/ \E h \in HabitIds : DeleteHabit(h)
  \/ \E h \in HabitIds :
       CreateRecord(WithDefaults(h, Absent, Absent, NULL, today))
  \/ OverviewStep
  \/ OverviewReturn

SpecOverview == Init /\ [][NextOverview]_vars

\* ------------------------------------------------------------ what the claims speak of
\* the days of a habit that carry a row marked completed
CompletedDates(recs, h) ==
  {r.date : r \in {x \in Rows(recs) : x.habit_id = h /\ x.completed = 1}}

\* the k with now, now-1, ..., now-(k-1) in S and now-k not in S
RunEndingAt(S, now) ==
  CHOOSE k \in 0..Cardinality(S) :
    /\ \A j \in 0..(k - 1) : (now - j) \in S
    /\ (now - k) \notin S

\* the length of the longest run of consecutive days in S (0 for no day)
LongestRun(S) ==
  IF S = {} THEN 0
  ELSE LET runs == {n \in 1..Cardinality(S) :
                      \E a \in S : \A j \in 0..(n - 1) : (a + j) \in S}
       IN CHOOSE n \in runs : \A m \in runs : m <= n

HasRow(recs, req) ==
  \E r \in Rows(recs) : /\ r.habit_id = req.habit_id
                        /\ r.date = req.date
                        /\ r.completed = req.completed
                        /\ r.notes = req.notes

\* ------------------------------------------------------------ claims
\* C1: under concurrent create_record calls that interleave between INSERT
\* and the fallback UPDATE, the table holds at most one row per
\* (habit_id, date); a call in its except block has its row to update, and
\* it ends as a 200 that updated exactly that one row.
C1_OneRowPerPair ==
  /\ \A r \in Rows(records) : CopiesIn(r, records) = 1
  /\ \A r1, r2 \in Rows(records) :
       (r1.habit_id = r2.habit_id /\ r1.date = r2.date) => r1 = r2
  /\ \A p \in Writers :
       /\ w[p].pc = "except" => UpdateMatches(records, w[p].req) # {}
       /\ (w[p].pc = "done" /\ w[p].status = 200) =>
            (w[p].rowcount = 1 /\ UpdateMatches(records, w[p].req) # {})

C1_Witness ==
  \E p, q \in Writers :
    /\ p # q
    /\ w[p].pc = "done" /\ w[p].status = 200 /\ w[p].rowcount = 1
    /\ w[q].pc = "except"
    /\ w[q].req.habit_id = w[p].req.habit_id
    /\ w[q].req.date = w[p].req.date

\* C2: calculate_streak returns as current the length of the run of
\* consecutive completed days that ends at today, for every set of
\* completed dates the table can hold.
C2_CurrentIsRunEndingToday ==
  last.op = "calculate_streak" =>
    resp.current = RunEndingAt(CompletedDates(records, last.req.habit_id), resp.now)

\* C3: for a non-empty set of completed dates, best is the length of the
\* longest run of consecutive days in it, best >= current, and days
\* 0, 1, 2, 4 with today = 4 give current 1 and best 3.
C3_BestIsLongestRun ==
  last.op = "calculate_streak" =>
    LET S == CompletedDates(records, last.req.habit_id)
    IN /\ S # {} => resp.best = LongestRun(S)
       /\ resp.best >= resp.current
       /\ (S = {0, 1, 2, 4} /\ resp.now = 4) =>
            (resp.current = 1 /\ resp.best = 3)

C3_Witness ==
  /\ last.op = "calculate_streak"
  /\ CompletedDates(records, last.req.habit_id) = {0, 1, 2, 4}
  /\ resp.now = 4
  /\ resp.current = 1
  /\ resp.best = 3

\* C4: for a window of days >= 1, get_completion_rate counts at most days
\* completed rows and returns a percentage within [0, 100].
C4_RateWithinPercent ==
  (last.op = "get_completion_rate" /\ last.days >= 1) =>
    /\ resp.error = "none"
    /\ resp.completed <= last.days
    /\ resp.rate >= 0 /\ resp.rate <= 1000

\* C5: get_completion_rate with days = 0 returns 0 and raises nothing.
C5_ZeroWindowReturnsZero ==
  (last.op = "get_completion_rate" /\ last.days = 0) =>
    (resp.error = "none" /\ resp.rate = 0)

\* C6: get_overview_stats counts only active habits in completed_today, so
\* completed_today <= total_habits and completion_rate_today <= 100.
C6_CompletedTodayOnlyActive ==
  ov.pc = "done" =>
    /\ ov.completed_today <= ov.total_habits
    /\ ov.completion_rate_today <= 1000

\* C7: get_overview_stats raises no division fault; completion_rate_today is
\* 0 when the count it read is 0 and average_streak is 0 when the id list
\* it read is empty, whatever commits between its two reads of habits.
C7_OverviewDivisionsGuarded ==
  /\ ov.error = "none"
  /\ ov.pc = "done" =>
       /\ ov.total_habits = 0 => ov.completion_rate_today = 0
       /\ ov.habit_ids = <<>> => ov.avg_streak = 0

C7_Witness ==
  /\ ov.pc = "done"
  /\ ov.total_habits = 0
  /\ ov.habit_ids # <<>>
  /\ ov.completed_today > 0
  /\ ov.completion_rate_today = 0

\* C8: each statistic is computed from the rows whose completed flag is 1
\* when it is asked for: a day re-marked completed = 0 counts in no
\* statistic, a day re-marked completed = 1 counts again, and a habit with
\* no completed row has current 0, best 0, rate 0.0 and no weekday.
C8_OnlyCompletedRowsCount ==
  LET S == CompletedDates(records, last.req.habit_id)
  IN /\ last.op = "calculate_streak" =>
          /\ \A j \in 0..(resp.current - 1) : (resp.now - j) \in S
          /\ resp.best = LongestRun(S)
          /\ S = {} => resp.current = 0
     /\ (last.op = "get_completion_rate" /\ last.days >= 1) =>
          /\ resp.completed = Cardinality({d \in S : d >= resp.now - last.days})
          /\ S = {} => resp.rate = 0
     /\ last.op = "get_best_weekday" =>
          /\ S = {} <=> resp.weekday = "None"
          /\ S # {} => \E d \in S : resp.weekday = weekdays[Weekday(d) + 1]

C8_Witness ==
  /\ last.op = "get_completion_rate"
  /\ last.days >= 1
  /\ \E r \in Rows(records) :
       /\ r.habit_id = last.req.habit_id
       /\ r.completed = 0
       /\ r.date >= resp.now - last.days
  /\ \E r \in Rows(records) :
       /\ r.habit_id = last.req.habit_id
       /\ r.completed = 1
       /\ r.date >= resp.now - last.days
  /\ resp.completed = 1

\* C9: create_record is idempotent: the table a request leaves behind is
\* left as it is by the same request applied again, whether the first
\* application inserted or updated; and so for every request on every
\* table reached.
C9_UpsertIdempotent ==
  /\ last.op = "create_record" =>
       create_record(records, last.req).recs = records
  /\ \A req \in UpsertRequests :
       LET once == create_record(records, req).recs
       IN create_record(once, req).recs = once

C9_Witness ==
  /\ last.op = "create_record"
  /\ resp.status = 200
  /\ resp.rowcount = 1
  /\ HasRow(records, last.req)
  /\ last.req.notes # NULL

\* C10: a create_record call answered 201 or 200 leaves a row for the
\* requested (habit_id, date) with the requested flag and notes.
C10_SuccessStoresRequest ==
  (last.op = "create_record" /\ resp.status \in {200, 201}) =>
    HasRow(records, last.req)

=============================================================================
